---- MODULE Spec2Model ----
(***************************************************************************)
(* A model of the persistence layer of fridge-manage-server: the food and  *)
(* user repositories (src/foods.rs, src/foods/repo.rs, src/users.rs,       *)
(* src/users/repo.rs), the entity constructors Food::new and User::new,    *)
(* and the password hashing service (src/util.rs).                         *)
(*                                                                         *)
(* The relational store is two tables, each a set of rows.  The source     *)
(* tree holds two generations of each repository: the one inside           *)
(* foods.rs / users.rs, whose insert and update read the row back, and the *)
(* one in foods/repo.rs / users/repo.rs, whose insert and update return    *)
(* unit.  Both are modelled; operations whose statements are the same in   *)
(* both generations (delete, read, read_all) are modelled once.            *)
(*                                                                         *)
(* The schema of the store is outside the source tree.  Its two            *)
(* constraints are modelled as the specification states them: the id       *)
(* column is the primary key of its table, and a food's user_id references *)
(* a stored user.  A statement that would break one is an execution error. *)
(*                                                                         *)
(* Newtype wrappers (FoodId, FoodName, UserId, UserName, Mail, Password)   *)
(* hold one string and convert with to_string / .0, which leaves the       *)
(* characters alone, so a wrapped value is modelled by the value it holds. *)
(* Identifiers are UUID strings; the k-th UUID drawn for a kind of entity  *)
(* is modelled by the number k.                                            *)
(***************************************************************************)
EXTENDS Naturals, FiniteSets, Sequences, TLC

\* The number of entities (foods and users together) the callers construct.
MaxEntities == 2

\* The number of insert/update calls that may wait for their read-back at once.
MaxInflight == 1

FoodIds == 1..MaxEntities
UserIds == 1..MaxEntities

\* The create payloads a caller supplies (src/foods.rs:45-49).
CreateFoodPayloads ==
    { [food_name |-> "milk", exp |-> "2025-04-08"],
      [food_name |-> "egg",  exp |-> "2025-05-01"] }

\* A string used as a password: `phc` tells a PHC-encoded Argon2 hash
\* (salt and digest of `body`) from a plain string `body`.
Plain(s) == [phc |-> FALSE, salt |-> 0, body |-> s]

\* The create payloads a caller supplies (src/users.rs:69-74).
CreateUserPayloads ==
    { [user_name |-> "alice", mail |-> "a@x.com", password |-> Plain("secret")],
      [user_name |-> "bob",   mail |-> "b@x.com", password |-> Plain("hunter2")] }

VARIABLES
    food_table,   \* the rows of food_table
    user_table,   \* the rows of user_table
    foods_mem,    \* the Food entities built by Food::new and held by callers
    users_mem,    \* the User entities built by User::new and held by callers
    inflight,     \* insert/update calls between their write and their read-back
    last          \* the call that returned last: its arguments and its result

vars == <<food_table, user_table, foods_mem, users_mem, inflight, last>>

----------------------------------------------------------------------------
\* Results.  kind is the variant returned, rows the entities it carries.

Unit == [kind |-> "Unit", rows |-> {}]

NotFound == [kind |-> "NotFound", rows |-> {}]

HashErr(k) == [kind |-> k, rows |-> {}]

Ok(kind, rows) == [kind |-> kind, rows |-> rows]

\* A returned call.  rows_affected is what the driver reported for the write
\* statement, fault the execution error the call swallowed: "write" or "read"
\* for a statement the store did not execute, "key" for a primary-key
\* violation, "none" otherwise.
Call(op, id, payload, res, n, fault) ==
    [op |-> op, id |-> id, payload |-> payload, res |-> res,
     rows_affected |-> n, fault |-> fault]

\* A call that has made its write and waits for its read-back of `key`.
Pending(op, id, payload, key, n) ==
    [op |-> op, id |-> id, payload |-> payload, key |-> key, rows_affected |-> n]

\* No call has returned since the caller took the last result.
Idle == Call("idle", 0, {}, Unit, 0, "none")

\* A caller makes a call once it has taken the result of the one before.
Ready == last = Idle

\* Uuid::new_v4: an identifier no entity of the kind carries yet.
Uuid_new_v4(used, ids) == CHOOSE k \in ids \ used : \A j \in ids \ used : k <= j

----------------------------------------------------------------------------
\* Food entity

\* Food_new that takes the identifier from a constant instead of Uuid::new_v4.
Food_new_fixed_id(payload, user, id) ==
    [food_id |-> 1, food_name |-> payload.food_name,
     exp |-> payload.exp, user_id |-> user.user_id]

Food_new(payload, user, id) ==
    [food_id |-> id, food_name |-> payload.food_name,
     exp |-> payload.exp, user_id |-> user.user_id]

Food_from_row(row) ==
    [food_id |-> row.food_id, food_name |-> row.food_name,
     exp |-> row.exp, user_id |-> row.user_id]

\* The Food values an in-crate caller can write down as an update payload
\* (new_update_food in the tests builds one with a struct literal).
FoodLiterals ==
    { [food_id |-> i, food_name |-> p.food_name, exp |-> p.exp, user_id |-> u] :
        i \in FoodIds, p \in CreateFoodPayloads, u \in UserIds }

----------------------------------------------------------------------------
\* The statements on food_table

\* primary key = the entity's id column
FoodKeyTaken(table, id) == \E r \in table : r.food_id = id

\* user_id must reference an existing user (enforced by the external schema)
FoodOwnerStored(users, uid) == \E r \in users : r.user_id = uid

\* The constraints of the schema that refuse an INSERT into food_table.
FoodInsertRefused(table, users, payload) ==
    FoodKeyTaken(table, payload.food_id) \/ ~FoodOwnerStored(users, payload.user_id)

\* What the store reports for a refused INSERT: "key" for the primary key,
\* "owner" for the reference to user_table.
FoodInsertFault(table, users, payload) ==
    IF FoodKeyTaken(table, payload.food_id) THEN "key"
    ELSE IF ~FoodOwnerStored(users, payload.user_id) THEN "owner"
    ELSE "none"

\* InsertFoodRow with the exp column left at the column's default.
InsertFoodRow_no_exp(table, payload) ==
    table \cup { [food_id |-> payload.food_id, food_name |-> payload.food_name,
                  exp |-> "0000-00-00", user_id |-> payload.user_id] }

InsertFoodRow(table, payload) ==
    table \cup { [food_id |-> payload.food_id, food_name |-> payload.food_name,
                  exp |-> payload.exp, user_id |-> payload.user_id] }

\* UpdateFoodRows that sets food_name alone.
UpdateFoodRows_name_only(table, key, payload) ==
    { IF r.food_id = key THEN [r EXCEPT !.food_name = payload.food_name] ELSE r :
        r \in table }

\* UpdateFoodRows that also sets the user_id column.
UpdateFoodRows_sets_owner(table, key, payload) ==
    { IF r.food_id = key
        THEN [r EXCEPT !.food_name = payload.food_name, !.exp = payload.exp,
                       !.user_id = payload.user_id]
        ELSE r : r \in table }

\* UpdateFoodRows as an upsert (REPLACE INTO): when no row has the id, one is
\* made of the payload.
UpdateFoodRows_upsert(table, key, payload) ==
    IF \E r \in table : r.food_id = key
      THEN { IF r.food_id = key
               THEN [r EXCEPT !.food_name = payload.food_name, !.exp = payload.exp]
               ELSE r : r \in table }
      ELSE table \cup { [food_id |-> key, food_name |-> payload.food_name,
                         exp |-> payload.exp, user_id |-> payload.user_id] }

UpdateFoodRows(table, key, payload) ==
    { IF r.food_id = key
        THEN [r EXCEPT !.food_name = payload.food_name, !.exp = payload.exp]
        ELSE r : r \in table }

\* DeleteFoodRows whose WHERE clause matches no row.
DeleteFoodRows_keeps(table, key) == table

DeleteFoodRows(table, key) == { r \in table : r.food_id # key }

\* SelectFood whose WHERE clause compares the food_name column with the id.
SelectFood_by_name(table, key) ==
    { Food_from_row(r) : r \in { x \in table : x.food_name = "" } }

SelectFood(table, key) == { Food_from_row(r) : r \in { x \in table : x.food_id = key } }

\* SelectFoodsByUser without its WHERE clause.
SelectFoodsByUser_all(table, uid) == { Food_from_row(r) : r \in table }

SelectFoodsByUser(table, uid) ==
    { Food_from_row(r) : r \in { x \in table : x.user_id = uid } }

\* fetch_one: the one row of the result, or an error when there is none.
FetchOne(kind, rows) ==
    IF rows = {} THEN NotFound ELSE Ok(kind, {CHOOSE r \in rows : TRUE})

\* The rows a statement with `WHERE food_id = key` touches.
FoodRowsMatched(table, key) == Cardinality({ r \in table : r.food_id = key })

----------------------------------------------------------------------------
\* FoodsRepository

FoodsRepository_read_result(table, id, err) ==
    IF err THEN NotFound ELSE FetchOne("Food", SelectFood(table, id))

\* FoodsRepository_read_all_result that fetches like read does (fetch_one in
\* place of fetch_all): an owner without foods is an error.
FoodsRepository_read_all_result_one(table, uid, err) ==
    IF err \/ SelectFoodsByUser(table, uid) = {}
      THEN NotFound ELSE Ok("AllFoods", SelectFoodsByUser(table, uid))

FoodsRepository_read_all_result(table, uid, err) ==
    IF err THEN NotFound ELSE Ok("AllFoods", SelectFoodsByUser(table, uid))

Food_new_call(payload, user) ==
    /\ Cardinality(foods_mem) + Cardinality(users_mem) < MaxEntities
    /\ LET id == Uuid_new_v4({ f.food_id : f \in foods_mem }, FoodIds)
           food == Food_new(payload, user, id)
       IN /\ foods_mem' = foods_mem \cup {food}
          /\ last' = Call("Food::new", id, {payload}, Ok("Food", {food}), 0, "none")
    /\ UNCHANGED <<food_table, user_table, users_mem, inflight>>

\* FoodsRepository_insert that drops the statement's error (`.ok()` in place of
\* `map_err(..)?`).
FoodsRepository_insert_ok(payload, err) ==
    /\ LET fails == err \/ FoodInsertRefused(food_table, user_table, payload)
       IN /\ food_table' = IF fails THEN food_table
                                    ELSE InsertFoodRow(food_table, payload)
          /\ last' = Call("FoodsRepository::insert", payload.food_id, {payload},
                          Unit, IF fails THEN 0 ELSE 1,
                          IF err THEN "write"
                                 ELSE FoodInsertFault(food_table, user_table, payload))
          /\ UNCHANGED <<user_table, foods_mem, users_mem, inflight>>

\* foods/repo.rs: one statement, unit on success.
FoodsRepository_insert(payload, err) ==
    /\ LET fails == err \/ FoodInsertRefused(food_table, user_table, payload)
       IN /\ food_table' = IF fails THEN food_table
                                    ELSE InsertFoodRow(food_table, payload)
          /\ last' = Call("FoodsRepository::insert", payload.food_id, {payload},
                          IF fails THEN NotFound ELSE Unit,
                          IF fails THEN 0 ELSE 1,
                          IF err THEN "write"
                                 ELSE FoodInsertFault(food_table, user_table, payload))
          /\ UNCHANGED <<user_table, foods_mem, users_mem, inflight>>

FoodsRepository_update(id, payload, err) ==
    /\ food_table' = IF err THEN food_table
                            ELSE UpdateFoodRows(food_table, id, payload)
    /\ last' = Call("FoodsRepository::update", id, {payload},
                    IF err THEN NotFound ELSE Unit,
                    IF err THEN 0 ELSE FoodRowsMatched(food_table, id),
                    IF err THEN "write" ELSE "none")
    /\ UNCHANGED <<user_table, foods_mem, users_mem, inflight>>

FoodsRepository_delete(id, err) ==
    /\ food_table' = IF err THEN food_table ELSE DeleteFoodRows(food_table, id)
    /\ last' = Call("FoodsRepository::delete", id, {},
                    IF err THEN NotFound ELSE Unit,
                    IF err THEN 0 ELSE FoodRowsMatched(food_table, id),
                    IF err THEN "write" ELSE "none")
    /\ UNCHANGED <<user_table, foods_mem, users_mem, inflight>>

FoodsRepository_read(id, err) ==
    /\ last' = Call("FoodsRepository::read", id, {},
                    FoodsRepository_read_result(food_table, id, err), 0,
                    IF err THEN "read" ELSE "none")
    /\ UNCHANGED <<food_table, user_table, foods_mem, users_mem, inflight>>

FoodsRepository_read_all(uid, err) ==
    /\ last' = Call("FoodsRepository::read_all", uid, {},
                    FoodsRepository_read_all_result(food_table, uid, err), 0,
                    IF err THEN "read" ELSE "none")
    /\ UNCHANGED <<food_table, user_table, foods_mem, users_mem, inflight>>

\* foods.rs: the write statement, then a read of the payload's id.
Foods_read_back(table, key, err) == FoodsRepository_read_result(table, key, err)

Foods_insert_write_fails(table, users, payload, err) ==
    err \/ FoodInsertRefused(table, users, payload)

Foods_insert_write(table, users, payload, err) ==
    IF Foods_insert_write_fails(table, users, payload, err)
      THEN table ELSE InsertFoodRow(table, payload)

Foods_update_write(table, payload, err) ==
    IF err THEN table ELSE UpdateFoodRows(table, payload.food_id, payload)

\* In a sequential run nothing happens between the write and the read-back.
Foods_insert(payload, err, err2) ==
    /\ LET fails == Foods_insert_write_fails(food_table, user_table, payload, err)
           after == Foods_insert_write(food_table, user_table, payload, err)
       IN /\ food_table' = after
          /\ last' = IF fails
                       THEN Call("foods.rs::insert", payload.food_id, {payload}, NotFound, 0,
                                 IF err THEN "write"
                                        ELSE FoodInsertFault(food_table, user_table, payload))
                       ELSE Call("foods.rs::insert", payload.food_id, {payload},
                                 Foods_read_back(after, payload.food_id, err2), 1,
                                 IF err2 THEN "read" ELSE "none")
          /\ UNCHANGED <<user_table, foods_mem, users_mem, inflight>>

Foods_update(id, payload, err, err2) ==
    /\ LET after == Foods_update_write(food_table, payload, err)
       IN /\ food_table' = after
          /\ last' = IF err
                       THEN Call("foods.rs::update", id, {payload}, NotFound, 0, "write")
                       ELSE Call("foods.rs::update", id, {payload},
                                 Foods_read_back(after, payload.food_id, err2),
                                 FoodRowsMatched(food_table, payload.food_id),
                                 IF err2 THEN "read" ELSE "none")
          /\ UNCHANGED <<user_table, foods_mem, users_mem, inflight>>

\* With other calls in flight the write and the read-back are two steps: the
\* call waits in `inflight` between them.
Foods_insert_begin(payload, err) ==
    /\ Cardinality(inflight) < MaxInflight
    /\ LET fails == Foods_insert_write_fails(food_table, user_table, payload, err)
           c == Pending("foods.rs::insert", payload.food_id, {payload}, payload.food_id, 1)
       IN /\ c \notin inflight
          /\ food_table' = Foods_insert_write(food_table, user_table, payload, err)
          /\ IF fails
               THEN /\ last' = Call("foods.rs::insert", payload.food_id, {payload}, NotFound,
                                    0, IF err THEN "write"
                                              ELSE FoodInsertFault(food_table, user_table,
                                                                   payload))
                    /\ inflight' = inflight
               ELSE /\ last' = last
                    /\ inflight' = inflight \cup {c}
    /\ UNCHANGED <<user_table, foods_mem, users_mem>>

Foods_read_back_step(c, err2) ==
    /\ c \in inflight
    /\ c.op = "foods.rs::insert"
    /\ inflight' = inflight \ {c}
    /\ last' = Call(c.op, c.id, c.payload, Foods_read_back(food_table, c.key, err2),
                    c.rows_affected, IF err2 THEN "read" ELSE "none")
    /\ UNCHANGED <<food_table, user_table, foods_mem, users_mem>>

----------------------------------------------------------------------------
\* Password hashing service

\* The PHC string Argon2 makes of a password and a salt.
PHC(salt, password) == [phc |-> TRUE, salt |-> salt, body |-> password.body]

HashOutcomes == {"Ok", "Salt", "Hash"}

\* default_hash_password with a constant salt in place of gen_uniq_b64_string.
default_hash_password_const_salt(password, salt, outcome) ==
    CASE outcome = "Salt" -> HashErr("Salt")
      [] outcome = "Hash" -> HashErr("Hash")
      [] OTHER -> Ok("String", {PHC(1, password)})

default_hash_password(password, salt, outcome) ==
    CASE outcome = "Salt" -> HashErr("Salt")
      [] outcome = "Hash" -> HashErr("Hash")
      [] OTHER -> Ok("String", {PHC(salt, password)})

\* verify_pass: parse the PHC string, derive the digest of the password with
\* the string's salt, compare.
verify_pass(password, password_hash) ==
    IF ~password_hash.phc THEN HashErr("Hash")
    ELSE IF PHC(password_hash.salt, password) = password_hash THEN Unit
    ELSE HashErr("Hash")

Hashers == {"default_hash_password"}

HashFunc_call(hasher, password, salt, outcome) ==
    default_hash_password(password, salt, outcome)

----------------------------------------------------------------------------
\* User entity

\* User_new that stores the payload's password as it came.
User_new_plain(payload, hasher, id, salt, outcome) ==
    LET hashed == HashFunc_call(hasher, payload.password, salt, outcome)
    IN IF hashed.kind # "String"
         THEN hashed
         ELSE Ok("User", { [user_id |-> id, user_name |-> payload.user_name,
                            mail |-> payload.mail, password |-> payload.password] })

\* User_new that falls back to the payload's password when the hasher fails
\* (unwrap_or in place of `?`).
User_new_fallback(payload, hasher, id, salt, outcome) ==
    LET hashed == HashFunc_call(hasher, payload.password, salt, outcome)
    IN Ok("User", { [user_id |-> id, user_name |-> payload.user_name,
                     mail |-> payload.mail, password |-> h] :
                       h \in IF hashed.kind = "String" THEN hashed.rows
                                                       ELSE {payload.password} })

User_new(payload, hasher, id, salt, outcome) ==
    LET hashed == HashFunc_call(hasher, payload.password, salt, outcome)
    IN IF hashed.kind # "String"
         THEN hashed
         ELSE Ok("User", { [user_id |-> id, user_name |-> payload.user_name,
                            mail |-> payload.mail, password |-> h] : h \in hashed.rows })

\* PubUserInfo_from_row that keeps the mail column.
PubUserInfo_from_row_mail(row) ==
    [user_id |-> row.user_id, user_name |-> row.user_name, mail |-> row.mail]

PubUserInfo_from_row(row) == [user_id |-> row.user_id, user_name |-> row.user_name]

\* The User values an in-crate caller can write down as an update payload
\* (update_user in the tests builds one with a struct literal).
UserLiterals ==
    { [user_id |-> i, user_name |-> p.user_name, mail |-> p.mail,
       password |-> p.password] : i \in UserIds, p \in CreateUserPayloads }

----------------------------------------------------------------------------
\* The statements on user_table

\* primary key = the entity's id column
UserKeyTaken(table, id) == \E r \in table : r.user_id = id

\* InsertUserRow with the mail parameter bound to the user's name.
InsertUserRow_mail_is_name(table, payload) ==
    table \cup { [user_id |-> payload.user_id, user_name |-> payload.user_name,
                  mail |-> payload.user_name, password |-> payload.password] }

InsertUserRow(table, payload) ==
    table \cup { [user_id |-> payload.user_id, user_name |-> payload.user_name,
                  mail |-> payload.mail, password |-> payload.password] }

UpdateUserRows(table, key, payload) ==
    { IF r.user_id = key
        THEN [r EXCEPT !.user_name = payload.user_name, !.mail = payload.mail,
                       !.password = payload.password]
        ELSE r : r \in table }

DeleteUserRows(table, key) == { r \in table : r.user_id # key }

SelectUser(table, key) ==
    { PubUserInfo_from_row(r) : r \in { x \in table : x.user_id = key } }

UserRowsMatched(table, key) == Cardinality({ r \in table : r.user_id = key })

----------------------------------------------------------------------------
\* UserRepository

UserRepository_read_result(table, id, err) ==
    IF err THEN NotFound ELSE FetchOne("PubUserInfo", SelectUser(table, id))

User_new_call(payload, hasher, outcome) ==
    /\ Cardinality(foods_mem) + Cardinality(users_mem) < MaxEntities
    /\ LET id == Uuid_new_v4({ u.user_id : u \in users_mem }, UserIds)
           salt == Uuid_new_v4({ u.password.salt : u \in users_mem }, UserIds)
           res == User_new(payload, hasher, id, salt, outcome)
       IN /\ users_mem' = IF res.kind = "User" THEN users_mem \cup res.rows
                                               ELSE users_mem
          /\ last' = Call("User::new", id, {payload}, res, 0, "none")
    /\ UNCHANGED <<food_table, user_table, foods_mem, inflight>>

\* UserRepository_insert whose statement is REPLACE INTO: a row stored under
\* the id is replaced, not refused.
UserRepository_insert_replace(payload, err) ==
    /\ user_table' = IF err THEN user_table
                            ELSE InsertUserRow(DeleteUserRows(user_table, payload.user_id),
                                               payload)
    /\ last' = Call("UserRepository::insert", payload.user_id, {payload},
                    IF err THEN NotFound ELSE Unit,
                    IF err THEN 0 ELSE 1,
                    IF err THEN "write" ELSE "none")
    /\ UNCHANGED <<food_table, foods_mem, users_mem, inflight>>

\* users/repo.rs: one statement, unit on success.
UserRepository_insert(payload, err) ==
    /\ LET fails == err \/ UserKeyTaken(user_table, payload.user_id)
       IN /\ user_table' = IF fails THEN user_table
                                    ELSE InsertUserRow(user_table, payload)
          /\ last' = Call("UserRepository::insert", payload.user_id, {payload},
                          IF fails THEN NotFound ELSE Unit,
                          IF fails THEN 0 ELSE 1,
                          IF err THEN "write" ELSE IF fails THEN "key" ELSE "none")
          /\ UNCHANGED <<food_table, foods_mem, users_mem, inflight>>

UserRepository_update(id, payload, err) ==
    /\ user_table' = IF err THEN user_table
                            ELSE UpdateUserRows(user_table, payload.user_id, payload)
    /\ last' = Call("UserRepository::update", id, {payload},
                    IF err THEN NotFound ELSE Unit,
                    IF err THEN 0 ELSE UserRowsMatched(user_table, payload.user_id),
                    IF err THEN "write" ELSE "none")
    /\ UNCHANGED <<food_table, foods_mem, users_mem, inflight>>

\* The schema keeps every food's user_id a stored user's id when a user row
\* goes: it refuses the DELETE while a food references the row ("restrict"),
\* or removes the referencing foods with it ("cascade").
OnDelete == {"restrict", "cascade"}

FoodsOwnedBy(foods, uid) == { r \in foods : r.user_id = uid }

UserDeleteRefused(foods, uid, on_delete) ==
    on_delete = "restrict" /\ FoodsOwnedBy(foods, uid) # {}

UserRepository_delete(id, err, on_delete) ==
    /\ LET refused == UserDeleteRefused(food_table, id, on_delete)
           fails == err \/ refused
       IN /\ user_table' = IF fails THEN user_table ELSE DeleteUserRows(user_table, id)
          /\ food_table' = IF fails THEN food_table
                                    ELSE food_table \ FoodsOwnedBy(food_table, id)
          /\ last' = Call("UserRepository::delete", id, {},
                          IF fails THEN NotFound ELSE Unit,
                          IF fails THEN 0 ELSE UserRowsMatched(user_table, id),
                          IF err THEN "write" ELSE IF refused THEN "owner" ELSE "none")
    /\ UNCHANGED <<foods_mem, users_mem, inflight>>

UserRepository_read(id, err) ==
    /\ last' = Call("UserRepository::read", id, {},
                    UserRepository_read_result(user_table, id, err), 0,
                    IF err THEN "read" ELSE "none")
    /\ UNCHANGED <<food_table, user_table, foods_mem, users_mem, inflight>>

\* users.rs: the write statement, then a read of the payload's id.
Users_read_back(table, key, err) == UserRepository_read_result(table, key, err)

Users_insert_write_fails(table, payload, err) ==
    err \/ UserKeyTaken(table, payload.user_id)

Users_insert_write(table, payload, err) ==
    IF Users_insert_write_fails(table, payload, err)
      THEN table ELSE InsertUserRow(table, payload)

Users_update_write(table, payload, err) ==
    IF err THEN table ELSE UpdateUserRows(table, payload.user_id, payload)

\* In a sequential run nothing happens between the write and the read-back.
Users_insert(payload, err, err2) ==
    /\ LET fails == Users_insert_write_fails(user_table, payload, err)
           after == Users_insert_write(user_table, payload, err)
       IN /\ user_table' = after
          /\ last' = IF fails
                       THEN Call("users.rs::insert", payload.user_id, {payload}, NotFound, 0,
                                 IF err THEN "write" ELSE "key")
                       ELSE Call("users.rs::insert", payload.user_id, {payload},
                                 Users_read_back(after, payload.user_id, err2), 1,
                                 IF err2 THEN "read" ELSE "none")
          /\ UNCHANGED <<food_table, foods_mem, users_mem, inflight>>

Users_update(id, payload, err, err2) ==
    /\ LET after == Users_update_write(user_table, payload, err)
       IN /\ user_table' = after
          /\ last' = IF err
                       THEN Call("users.rs::update", id, {payload}, NotFound, 0, "write")
                       ELSE Call("users.rs::update", id, {payload},
                                 Users_read_back(after, payload.user_id, err2),
                                 UserRowsMatched(user_table, payload.user_id),
                                 IF err2 THEN "read" ELSE "none")
          /\ UNCHANGED <<food_table, foods_mem, users_mem, inflight>>

\* With other calls in flight the write and the read-back are two steps: the
\* call waits in `inflight` between them.
Users_insert_begin(payload, err) ==
    /\ Cardinality(inflight) < MaxInflight
    /\ LET fails == Users_insert_write_fails(user_table, payload, err)
           c == Pending("users.rs::insert", payload.user_id, {payload}, payload.user_id, 1)
       IN /\ c \notin inflight
          /\ user_table' = Users_insert_write(user_table, payload, err)
          /\ IF fails
               THEN /\ last' = Call("users.rs::insert", payload.user_id, {payload}, NotFound,
                                    0, IF err THEN "write" ELSE "key")
                    /\ inflight' = inflight
               ELSE /\ last' = last
                    /\ inflight' = inflight \cup {c}
    /\ UNCHANGED <<food_table, foods_mem, users_mem>>

Users_read_back_step(c, err2) ==
    /\ c \in inflight
    /\ c.op = "users.rs::insert"
    /\ inflight' = inflight \ {c}
    /\ last' = Call(c.op, c.id, c.payload, Users_read_back(user_table, c.key, err2),
                    c.rows_affected, IF err2 THEN "read" ELSE "none")
    /\ UNCHANGED <<food_table, user_table, foods_mem, users_mem>>

----------------------------------------------------------------------------
Init ==
    /\ food_table = {}
    /\ user_table = {}
    /\ foods_mem = {}
    /\ users_mem = {}
    /\ inflight = {}
    /\ last = Idle

\* The calls of a caller that builds every User it passes with User::new.
CallsViaNew ==
    \/ Ready /\ \E p \in CreateFoodPayloads, u \in UserIds :
          Food_new_call(p, [user_id |-> u, user_name |-> "any"])
    \/ Ready /\ \E f \in foods_mem, err \in BOOLEAN : FoodsRepository_insert(f, err)
    \/ Ready /\ \E i \in FoodIds, f \in FoodLiterals, err \in BOOLEAN :
          FoodsRepository_update(i, f, err)
    \/ Ready /\ \E i \in FoodIds, err \in BOOLEAN : FoodsRepository_delete(i, err)
    \/ Ready /\ \E i \in FoodIds, err \in BOOLEAN : FoodsRepository_read(i, err)
    \/ Ready /\ \E u \in UserIds, err \in BOOLEAN : FoodsRepository_read_all(u, err)
    \/ Ready /\ \E f \in foods_mem, err \in BOOLEAN, err2 \in BOOLEAN : Foods_insert(f, err, err2)
    \/ Ready /\ \E i \in FoodIds, f \in FoodLiterals, err \in BOOLEAN, err2 \in BOOLEAN :
          Foods_update(i, f, err, err2)
    \/ Ready /\ \E p \in CreateUserPayloads, h \in Hashers, o \in HashOutcomes :
          User_new_call(p, h, o)
    \/ Ready /\ \E u \in users_mem, err \in BOOLEAN : UserRepository_insert(u, err)
    \/ Ready /\ \E i \in UserIds, err \in BOOLEAN, od \in OnDelete :
          UserRepository_delete(i, err, od)
    \/ Ready /\ \E i \in UserIds, err \in BOOLEAN : UserRepository_read(i, err)
    \/ Ready /\ \E u \in users_mem, err \in BOOLEAN, err2 \in BOOLEAN : Users_insert(u, err, err2)
    \/ Ready /\ \E i \in UserIds, u \in users_mem, err \in BOOLEAN :
          UserRepository_update(i, u, err)
    \/ Ready /\ \E i \in UserIds, u \in users_mem, err \in BOOLEAN, err2 \in BOOLEAN :
          Users_update(i, u, err, err2)

\* The caller takes the result of the call that returned.
Return ==
    /\ last # Idle
    /\ last' = Idle
    /\ UNCHANGED <<food_table, user_table, foods_mem, users_mem, inflight>>

\* User updates whose payload is a struct literal.
CallsWithLiteral ==
    \/ Ready /\ \E i \in UserIds, u \in UserLiterals, err \in BOOLEAN :
          UserRepository_update(i, u, err)
    \/ Ready /\ \E i \in UserIds, u \in UserLiterals, err \in BOOLEAN, err2 \in BOOLEAN :
          Users_update(i, u, err, err2)

Next == CallsViaNew \/ CallsWithLiteral \/ Return

Spec == Init /\ [][Next]_vars

NextViaNew == CallsViaNew \/ Return

\* The callers build every User with User::new.
SpecViaNew == Init /\ [][NextViaNew]_vars

\* Concurrent callers of insert (foods.rs / users.rs generation) and delete:
\* statements of different calls interleave, each statement is atomic in the
\* store.
ConcCalls ==
    \/ Ready /\ \E p \in CreateFoodPayloads, u \in UserIds :
          Food_new_call(p, [user_id |-> u, user_name |-> "any"])
    \/ Ready /\ \E p \in CreateUserPayloads, h \in Hashers, o \in HashOutcomes :
          User_new_call(p, h, o)
    \/ Ready /\ \E f \in foods_mem, err \in BOOLEAN : Foods_insert_begin(f, err)
    \/ Ready /\ \E c \in inflight, err2 \in BOOLEAN : Foods_read_back_step(c, err2)
    \/ Ready /\ \E i \in FoodIds, err \in BOOLEAN : FoodsRepository_delete(i, err)
    \/ Ready /\ \E u \in users_mem, err \in BOOLEAN : Users_insert_begin(u, err)
    \/ Ready /\ \E c \in inflight, err2 \in BOOLEAN : Users_read_back_step(c, err2)
    \/ Ready /\ \E i \in UserIds, err \in BOOLEAN, od \in OnDelete :
          UserRepository_delete(i, err, od)

NextConc == ConcCalls \/ Return

SpecConc == Init /\ [][NextConc]_vars

----------------------------------------------------------------------------
\* Properties

Succeeded(call) == call.res.kind \in {"Unit", "Food", "PubUserInfo", "AllFoods"}

FoodRowsUnder(key) == { r \in food_table : r.food_id = key }

UserRowsUnder(key) == { r \in user_table : r.user_id = key }

Pub(u) == [user_id |-> u.user_id, user_name |-> u.user_name]

\* C1: post-delete invisibility.  In the state a successful delete(I) leaves,
\* a read(I) returns NotFound, whether or not the store executes the read; for
\* the food and the user repository.
C1_PostDeleteInvisible ==
    /\ (last.op = "FoodsRepository::delete" /\ last.res = Unit)
          => \A err \in BOOLEAN :
                FoodsRepository_read_result(food_table, last.id, err) = NotFound
    /\ (last.op = "UserRepository::delete" /\ last.res = Unit)
          => \A err \in BOOLEAN :
                UserRepository_read_result(user_table, last.id, err) = NotFound

\* A delete that removed a stored row has returned success.
C1_Witness ==
    /\ last.op = "FoodsRepository::delete"
    /\ last.res = Unit
    /\ last.rows_affected = 1

\* C2: round trip.  In the state a successful insert of an entity built from a
\* create payload leaves, read of the entity's id returns the entity's
\* non-redacted fields (all four of a Food; user_id and user_name of a User,
\* and no other field), and that is the value insert itself returned when
\* insert returns an entity.
C2_RoundTrip ==
    /\ (last.op \in {"FoodsRepository::insert", "foods.rs::insert"} /\ Succeeded(last))
          => LET r == FoodsRepository_read_result(food_table, last.id, FALSE)
             IN /\ r.kind = "Food"
                /\ r.rows = last.payload
                /\ last.res.kind = "Food" => r = last.res
    /\ (last.op \in {"UserRepository::insert", "users.rs::insert"} /\ Succeeded(last))
          => LET r == UserRepository_read_result(user_table, last.id, FALSE)
             IN /\ r.kind = "PubUserInfo"
                /\ r.rows = { Pub(u) : u \in last.payload }
                /\ \A x \in r.rows : DOMAIN x = {"user_id", "user_name"}
                /\ last.res.kind = "PubUserInfo" => r = last.res

\* An insert with read-back has returned the entity it read back.
C2_Witness ==
    /\ last.op = "foods.rs::insert"
    /\ last.res.kind = "Food"
    /\ last.payload \subseteq foods_mem

UpdateKey(call, p) ==
    IF call.op = "FoodsRepository::update" THEN call.id
    ELSE IF call.op = "foods.rs::update" THEN p.food_id
    ELSE p.user_id

C4_OwnershipScoping ==
    (last.op = "FoodsRepository::read_all" /\ Succeeded(last))
       => /\ last.res = FoodsRepository_read_all_result(food_table, last.id, FALSE)
          /\ \A f \in last.res.rows :
                /\ f.user_id = last.id
                /\ \A e \in foods_mem : e.food_id = f.food_id => e.user_id = last.id

\* read_all of one user has returned while the food of another user is stored.
C4_Witness ==
    /\ last.op = "FoodsRepository::read_all"
    /\ last.res.kind = "AllFoods"
    /\ \E r \in food_table : r.user_id # last.id /\ r \in foods_mem

Mails == { p.mail : p \in CreateUserPayloads } \cup {"z@x.com"}

Passwords ==
    { p.password : p \in CreateUserPayloads }
       \cup { PHC(1, p.password) : p \in CreateUserPayloads }

\* The table with the mail and the password of row x replaced.
WithCredentials(table, x, m, pw) ==
    (table \ {x}) \cup { [x EXCEPT !.mail = m, !.password = pw] }

\* C5: redaction.  What the user repository returns carries user_id and
\* user_name and nothing else, and what read(id) returned is what it returns in
\* any store that differs from this one in the mail or the password of a user.
C5_Redaction ==
    /\ last.op \in {"UserRepository::read", "UserRepository::insert",
                    "UserRepository::update", "UserRepository::delete",
                    "users.rs::insert", "users.rs::update"}
          => \A r \in last.res.rows : DOMAIN r = {"user_id", "user_name"}
    /\ (last.op = "UserRepository::read" /\ last.fault = "none")
          => /\ last.res = UserRepository_read_result(user_table, last.id, FALSE)
             /\ \A x \in user_table, m \in Mails, pw \in Passwords :
                   UserRepository_read_result(
                      WithCredentials(user_table, x, m, pw), last.id, FALSE) = last.res

\* read has returned the public view of a stored user.
C5_Witness ==
    /\ last.op = "UserRepository::read"
    /\ last.res.kind = "PubUserInfo"
    /\ \E x \in user_table : x.user_id = last.id /\ x.password.phc

\* C6: no plaintext password is stored.  A User built by User::new carries
\* what the hashing capability returned for the payload's password, never the
\* password itself, and when every User passed to insert and update was built
\* by User::new no stored password is one a caller supplied.
C6_NoPlaintextStored ==
    /\ \A u \in users_mem : u.password.phc
    /\ \A r \in user_table : r.password \notin { p.password : p \in CreateUserPayloads }
    /\ (last.op = "User::new" /\ last.res.kind = "User")
          => \A u \in last.res.rows, p \in last.payload :
                /\ u.password # p.password
                /\ \E h \in Hashers :
                      HashFunc_call(h, p.password, u.password.salt, "Ok")
                         = Ok("String", {u.password})

\* An update has written a User built by User::new over a stored row.
C6_Witness ==
    /\ last.op \in {"UserRepository::update", "users.rs::update"}
    /\ Succeeded(last)
    /\ last.rows_affected = 1
    /\ last.payload \subseteq users_mem

\* C7: a failing hasher.  A User::new call whose hasher fails with Salt or Hash
\* returns that error, produces no User, and leaves both the entities in
\* memory and user_table as they were.
C7_HashFailurePropagates ==
    [][ \A p \in CreateUserPayloads, h \in Hashers, o \in {"Salt", "Hash"} :
           User_new_call(p, h, o)
              => /\ last'.res = HashErr(o)
                 /\ users_mem' = users_mem
                 /\ user_table' = user_table ]_vars

\* User::new has returned a hashing error.
C7_Witness ==
    /\ last.op = "User::new"
    /\ last.res.kind \in {"Salt", "Hash"}

\* C8 as stated: a failing repository operation reports NotFound, and an
\* update or delete that the store executed and that matched no row is such a
\* failure.
C8_ZeroRowsIsNotFound ==
    /\ last.fault # "none" => last.res = NotFound
    /\ ( /\ last.op \in {"FoodsRepository::update", "foods.rs::update",
                         "FoodsRepository::delete", "UserRepository::update",
                         "users.rs::update", "UserRepository::delete"}
         /\ last.fault = "none"
         /\ last.rows_affected = 0 )
          => last.res = NotFound

\* C9 as stated: a successful insert or update returns the entity a read of the
\* written id finds in the store (a Food, a PubUserInfo).
C9_ReturnsReadBack ==
    /\ ( /\ last.op \in {"FoodsRepository::insert", "foods.rs::insert",
                         "FoodsRepository::update", "foods.rs::update"}
         /\ Succeeded(last) )
          => /\ last.res.kind = "Food"
             /\ \A p \in last.payload :
                   last.res.rows = SelectFood(food_table, p.food_id)
    /\ ( /\ last.op \in {"UserRepository::insert", "users.rs::insert",
                         "UserRepository::update", "users.rs::update"}
         /\ Succeeded(last) )
          => /\ last.res.kind = "PubUserInfo"
             /\ \A p \in last.payload :
                   last.res.rows = SelectUser(user_table, p.user_id)

\* C10: the lost insert.  With inserts and deletes interleaving, an insert
\* whose write succeeded and whose read-back the store executed returns
\* NotFound only when the row is no longer stored under the entity's id, and
\* it is not stored when the insert returns.
C10_LostInsert ==
    /\ ( /\ last.op = "foods.rs::insert" /\ last.rows_affected = 1
         /\ last.fault = "none" /\ last.res = NotFound )
          => FoodRowsUnder(last.id) = {}
    /\ ( /\ last.op = "users.rs::insert" /\ last.rows_affected = 1
         /\ last.fault = "none" /\ last.res = NotFound )
          => UserRowsUnder(last.id) = {}
    /\ ( /\ last.op = "foods.rs::insert" /\ last.rows_affected = 1
         /\ last.fault = "none" /\ last.res # NotFound )
          => last.res.rows = FoodRowsUnder(last.id)

\* An insert has written its row, a delete has removed it, and the insert has
\* then returned NotFound.
C10_Witness ==
    /\ last.op = "foods.rs::insert"
    /\ last.rows_affected = 1
    /\ last.fault = "none"
    /\ last.res = NotFound
    /\ FoodRowsUnder(last.id) = {}
    /\ inflight = {}

\* C11: read_all counts the owner's live foods.  When a user owns no food and
\* one food is inserted for that user, read_all of the user returns exactly
\* that Food (with the inserted name and date); when the only food of a user is
\* deleted, read_all of the user succeeds with the empty collection; and a
\* read_all the store executes never returns NotFound.
C11_ReadAllCounts ==
    [][ \A u \in UserIds :
          LET before == SelectFoodsByUser(food_table, u)
              after == FoodsRepository_read_all_result(food_table', u, FALSE)
          IN /\ ( /\ before = {}
                  /\ last'.op \in {"FoodsRepository::insert", "foods.rs::insert"}
                  /\ Succeeded(last')
                  /\ \A p \in last'.payload : p.user_id = u )
                   => after = Ok("AllFoods", last'.payload)
             /\ ( /\ before # {}
                  /\ \A f \in before : f.food_id = last'.id
                  /\ last'.op = "FoodsRepository::delete"
                  /\ last'.res = Unit )
                   => after = Ok("AllFoods", {})
             /\ ( /\ last'.op = "FoodsRepository::read_all"
                  /\ last'.id = u
                  /\ last'.fault = "none" )
                   => last'.res = FoodsRepository_read_all_result(food_table, u, FALSE)
                      /\ last'.res.kind = "AllFoods" ]_vars

\* A delete has removed a stored food, and read_all of the user it was built
\* for returns the empty collection.
C11_Witness ==
    /\ last.op = "FoodsRepository::delete"
    /\ last.res = Unit
    /\ last.rows_affected = 1
    /\ \E e \in foods_mem :
          /\ e.food_id = last.id
          /\ FoodsRepository_read_all_result(food_table, e.user_id, FALSE)
                = Ok("AllFoods", {})

\* C12: the stored row equals the inserted entity.  In the state a successful
\* insert(E) leaves, the one row stored under E's id has E's value in every
\* column: food_id, food_name, exp and user_id of a Food; user_id, user_name,
\* mail and the hashed password of a User.
C12_StoredRowEqualsEntity ==
    /\ (last.op \in {"FoodsRepository::insert", "foods.rs::insert"} /\ Succeeded(last))
          => /\ FoodRowsUnder(last.id) = last.payload
             /\ \A e \in last.payload : e.food_id = last.id
    /\ (last.op \in {"UserRepository::insert", "users.rs::insert"} /\ Succeeded(last))
          => /\ UserRowsUnder(last.id) = last.payload
             /\ \A e \in last.payload : e.user_id = last.id

\* An insert has stored a User that carries a hashed password.
C12_Witness ==
    /\ last.op = "UserRepository::insert"
    /\ last.res = Unit
    /\ \E r \in UserRowsUnder(last.id) :
          r.password.phc /\ r \in users_mem /\ r.mail = "a@x.com"

FoodWrites == {"FoodsRepository::update", "foods.rs::update", "FoodsRepository::delete"}

UserWrites == {"UserRepository::update", "users.rs::update", "UserRepository::delete"}

\* C13 as stated: writes are keyed by the id argument.  A step in which
\* update(I, P) or delete(I) returns leaves every row of the entity's table
\* whose id is not I as it was, whatever id P carries, and leaves no row under
\* an id that was not stored before.
C13_KeyedByIdArgument ==
    [][ /\ last'.op \in FoodWrites
              => /\ \A r \in food_table : r.food_id # last'.id => r \in food_table'
                 /\ { r.food_id : r \in food_table' } \subseteq { r.food_id : r \in food_table }
        /\ last'.op \in UserWrites
              => /\ \A r \in user_table : r.user_id # last'.id => r \in user_table'
                 /\ { r.user_id : r \in user_table' } \subseteq { r.user_id : r \in user_table }
      ]_vars

FoodInserts == {"FoodsRepository::insert", "foods.rs::insert"}

\* C14: every stored food's user_id is the id of a stored user.  It holds in
\* every reachable state, whatever was inserted, updated or deleted (a user
\* who owns foods included); and an insert of a food whose owner is not stored
\* returns NotFound and leaves no row under the food's id.
C14_OwnerIsStored ==
    /\ \A f \in food_table : \E u \in user_table : u.user_id = f.user_id
    /\ ( /\ last.op \in FoodInserts
         /\ \A p \in last.payload : \A u \in user_table : u.user_id # p.user_id )
          => /\ last.res = NotFound
             /\ last.rows_affected = 0
             /\ FoodRowsUnder(last.id) = {}

\* The store has refused the insert of a food whose owner is not stored.
C14_Witness ==
    /\ last.op \in FoodInserts
    /\ last.fault = "owner"
    /\ last.res = NotFound
    /\ \A p \in last.payload : \A u \in user_table : u.user_id # p.user_id

UserInserts == {"UserRepository::insert", "users.rs::insert"}

\* C15 as stated: insert generates the id.  An insert called again with a
\* payload whose row is stored, and executed by the store, succeeds and leaves
\* a second row with the payload's fields under a different id.
C15_InsertGeneratesId ==
    [][ /\ ( /\ last'.op \in FoodInserts
             /\ last'.fault \in {"none", "key"}
             /\ last'.payload \subseteq food_table )
              => /\ Succeeded(last')
                 /\ \A p \in last'.payload :
                       \E r \in food_table' :
                          /\ r.food_id # p.food_id
                          /\ [r EXCEPT !.food_id = p.food_id] = p
        /\ ( /\ last'.op \in UserInserts
             /\ last'.fault \in {"none", "key"}
             /\ last'.payload \subseteq user_table )
              => /\ Succeeded(last')
                 /\ \A p \in last'.payload :
                       \E r \in user_table' :
                          /\ r.user_id # p.user_id
                          /\ [r EXCEPT !.user_id = p.user_id] = p ]_vars

\* C15, amended: the constructor generates the id.  Every Food::new and
\* User::new call, also one made again with the same create payload, yields an
\* entity whose id no other entity carries, and when two such entities have
\* been inserted successfully they are two stored rows under different ids.
C15_NewGeneratesId ==
    /\ \A e1 \in foods_mem, e2 \in foods_mem : e1.food_id = e2.food_id => e1 = e2
    /\ \A e1 \in users_mem, e2 \in users_mem : e1.user_id = e2.user_id => e1 = e2
    /\ (last.op \in {"Food::new", "User::new"} /\ last.res.kind \in {"Food", "User"})
          => /\ \A e \in last.res.rows : last.op = "Food::new" => e.food_id = last.id
             /\ \A e \in last.res.rows : last.op = "User::new" => e.user_id = last.id
             /\ last.res.rows \subseteq foods_mem \cup users_mem
    /\ (last.op \in FoodInserts /\ Succeeded(last))
          => \A e \in foods_mem \cap food_table :
                e \notin last.payload
                   => e.food_id # last.id /\ FoodRowsUnder(e.food_id) = {e}
    /\ (last.op \in UserInserts /\ Succeeded(last))
          => \A e \in users_mem \cap user_table :
                e \notin last.payload
                   => e.user_id # last.id /\ UserRowsUnder(e.user_id) = {e}

\* Two users built from the same create payload are stored under two ids.
C15_Witness ==
    /\ last.op \in UserInserts
    /\ Succeeded(last)
    /\ \E r1 \in user_table, r2 \in user_table :
          /\ r1.user_id # r2.user_id
          /\ r1.user_name = r2.user_name /\ r1.mail = r2.mail
          /\ {r1, r2} \subseteq users_mem
          /\ r2 \in last.payload

\* C16: hash non-determinism, verify-determinism.  Two results of the hashing
\* service, also for the same plaintext, carry different salts and are
\* different strings, and verify_pass of the plaintext and each of them
\* succeeds.
C16_FreshSaltVerifies ==
    /\ \A u1 \in users_mem, u2 \in users_mem :
          u1 # u2 => /\ u1.password.salt # u2.password.salt
                     /\ u1.password # u2.password
    /\ \A u \in users_mem, p \in CreateUserPayloads :
          (u.user_name = p.user_name /\ u.mail = p.mail)
             => verify_pass(p.password, u.password) = Unit
    /\ (last.op = "User::new" /\ last.res.kind = "User")
          => \A p \in last.payload, e \in last.res.rows :
                verify_pass(p.password, e.password) = Unit

\* The hashing service has hashed one plaintext twice.
C16_Witness ==
    /\ last.op = "User::new"
    /\ last.res.kind = "User"
    /\ \E u1 \in users_mem, u2 \in last.res.rows :
          /\ u1 # u2
          /\ u1.password.body = u2.password.body
          /\ u1.password # u2.password

StoredFoodIds(table) == { r.food_id : r \in table }

StoredUserIds(table) == { r.user_id : r \in table }

\* C17: row lifecycle.  The set of stored ids of a table changes only in a step
\* of insert, which adds the entity's id, or of delete, which removes ids (the
\* deleted one; with a user, the ids of the foods the schema removes with it).
\* A step of update leaves the stored ids of both tables as they were, so an
\* update of an absent id creates no row; and a read of an id that is not
\* stored returns NotFound.
C17_RowLifecycle ==
    [][ /\ StoredFoodIds(food_table') # StoredFoodIds(food_table)
              => \/ /\ last'.op \in FoodInserts
                    /\ last'.id \notin StoredFoodIds(food_table)
                    /\ StoredFoodIds(food_table')
                          = StoredFoodIds(food_table) \cup {last'.id}
                 \/ /\ last'.op = "FoodsRepository::delete"
                    /\ last'.id \in StoredFoodIds(food_table)
                    /\ StoredFoodIds(food_table')
                          = StoredFoodIds(food_table) \ {last'.id}
                 \/ /\ last'.op = "UserRepository::delete"
                    /\ StoredFoodIds(food_table') \subseteq StoredFoodIds(food_table)
        /\ StoredUserIds(user_table') # StoredUserIds(user_table)
              => \/ /\ last'.op \in UserInserts
                    /\ last'.id \notin StoredUserIds(user_table)
                    /\ StoredUserIds(user_table')
                          = StoredUserIds(user_table) \cup {last'.id}
                 \/ /\ last'.op = "UserRepository::delete"
                    /\ last'.id \in StoredUserIds(user_table)
                    /\ StoredUserIds(user_table')
                          = StoredUserIds(user_table) \ {last'.id}
        /\ last'.op \in {"FoodsRepository::update", "foods.rs::update",
                          "UserRepository::update", "users.rs::update"}
              => /\ StoredFoodIds(food_table') = StoredFoodIds(food_table)
                 /\ StoredUserIds(user_table') = StoredUserIds(user_table)
        /\ (last'.op = "FoodsRepository::read" /\ last'.id \notin StoredFoodIds(food_table))
              => last'.res = NotFound
        /\ (last'.op = "UserRepository::read" /\ last'.id \notin StoredUserIds(user_table))
              => last'.res = NotFound ]_vars

\* An update of an id that is not stored has returned, and no row is stored
\* under the id.
C17_Witness ==
    /\ last.op = "FoodsRepository::update"
    /\ last.res = Unit
    /\ last.rows_affected = 0
    /\ last.id \notin StoredFoodIds(food_table)
    /\ food_table # {}

\* C18: insert of a stored id.  A step in which insert returns for an entity
\* whose id was stored already returns NotFound and leaves both tables as they
\* were: the stored row keeps its values and no row is added.
C18_DuplicateInsertRefused ==
    [][ /\ (last'.op \in FoodInserts /\ last'.id \in StoredFoodIds(food_table))
              => /\ last'.res = NotFound
                 /\ food_table' = food_table
                 /\ user_table' = user_table
        /\ (last'.op \in UserInserts /\ last'.id \in StoredUserIds(user_table))
              => /\ last'.res = NotFound
                 /\ food_table' = food_table
                 /\ user_table' = user_table ]_vars

\* The store has refused a second insert of an entity whose stored row has
\* been updated since the first.
C18_Witness ==
    /\ last.op = "UserRepository::insert"
    /\ last.fault = "key"
    /\ last.res = NotFound
    /\ \E r \in UserRowsUnder(last.id) : r \notin last.payload

\* C19: a food's owner is fixed at insert.  Every stored food carries the
\* user_id of the entity it was inserted from, after any updates; an update
\* whose payload carries another user_id still leaves the stored user_id; and
\* read_all of a user holds only foods that were built for that user.
C19_OwnerFixedAtInsert ==
    /\ \A r \in food_table :
          \E e \in foods_mem : e.food_id = r.food_id /\ e.user_id = r.user_id
    /\ \A u \in UserIds :
          \A f \in FoodsRepository_read_all_result(food_table, u, FALSE).rows :
             \A e \in foods_mem : e.food_id = f.food_id => e.user_id = u
    /\ (last.op \in {"FoodsRepository::update", "foods.rs::update"} /\ Succeeded(last))
          => \A p \in last.payload :
                \A r \in FoodRowsUnder(UpdateKey(last, p)) :
                   \A e \in foods_mem : e.food_id = r.food_id => r.user_id = e.user_id

\* An update whose payload names another owner has rewritten a stored food.
C19_Witness ==
    /\ last.op \in {"FoodsRepository::update", "foods.rs::update"}
    /\ Succeeded(last)
    /\ last.rows_affected = 1
    /\ \E p \in last.payload :
          \E r \in FoodRowsUnder(UpdateKey(last, p)) :
             /\ p.user_id # r.user_id
             /\ r.food_name = p.food_name /\ r.exp = p.exp
             /\ \E e \in foods_mem : e.food_id = r.food_id /\ e.food_name # r.food_name

====
